---- MODULE Spec2Model ----
(***************************************************************************)
(* Contacts REST backend: the contact repository (src/src/repository/      *)
(* contacts.py) over the contacts table (migrations/versions/              *)
(* e2b5db384efe_init.py) and the contact routes (src/src/routes/           *)
(* contacts.py) with their request schemas (src/src/schemas.py).           *)
(*                                                                         *)
(* Strings are sequences of one-character strings, dates are records       *)
(* [year, month, day], a JSON request body is a function from the keys it  *)
(* carries to their values, and a query result is the set of rows it       *)
(* returns (no query of the repository has an ORDER BY).                   *)
(***************************************************************************)
EXTENDS Integers, Sequences, FiniteSets, TLC

VARIABLES
    contacts,   \* the rows of table contacts
    nextId,     \* next value of the id sequence of table contacts
    req,        \* the last request: [op, user, id, body, arg, skip, limit, today]
    ret,        \* what the repository function called by the last request did
    resp,       \* the HTTP response to the last request
    removed,    \* history: the <<user, id>> whose remove_contact succeeded
    users,      \* the rows of table users
    issued,     \* the subjects of the token pairs the auth service issued, in order
    confirmedEmails, \* history: the emails confirmed_email was called with
    limiter,    \* the rate limiter's keys in the key-value store
    bearer,     \* the credentials of the last request
    recent,     \* history: how many GET /api/contacts/ the limiter let through
                \* at this instant (cur) and half a window ago (prev)
    txn         \* the create_contact calls in progress, one per worker

vars == <<contacts, nextId, req, ret, resp, removed, users, issued,
          confirmedEmails, limiter, bearer, recent, txn>>

\* what the contact handlers leave alone
userVars == <<users, issued, confirmedEmails>>

\* what the requests that passed the limiter and the authentication leave alone
gateVars == <<limiter, bearer, recent>>

-----------------------------------------------------------------------------
(* Bounds of the model *)

\* ids the id sequence hands out before the model stops creating contacts
MaxId == 3

Users == {1, 2}

ContactIds == 1..MaxId

-----------------------------------------------------------------------------
(* Dates: datetime.date and timedelta(days=i) *)

Date(y, m, d) == [year |-> y, month |-> m, day |-> d]

IsLeap(y) == (y % 4 = 0 /\ y % 100 # 0) \/ y % 400 = 0

DaysInMonth(y, m) ==
    IF m = 2 THEN (IF IsLeap(y) THEN 29 ELSE 28)
    ELSE IF m \in {4, 6, 9, 11} THEN 30 ELSE 31

NextDay(dt) ==
    IF dt.day < DaysInMonth(dt.year, dt.month)
    THEN Date(dt.year, dt.month, dt.day + 1)
    ELSE IF dt.month < 12 THEN Date(dt.year, dt.month + 1, 1)
    ELSE Date(dt.year + 1, 1, 1)

RECURSIVE AddDays(_, _)
AddDays(dt, n) == IF n = 0 THEN dt ELSE AddDays(NextDay(dt), n - 1)

-----------------------------------------------------------------------------
(* Strings: str(int), concatenation, SQL LIKE *)

Digits == <<"0", "1", "2", "3", "4", "5", "6", "7", "8", "9">>

RECURSIVE Str(_)
Str(n) == IF n < 10 THEN <<Digits[n + 1]>>
          ELSE Str(n \div 10) \o <<Digits[(n % 10) + 1]>>

\* s LIKE p: % matches any run of characters, _ any one character
RECURSIVE LikeMatch(_, _)
LikeMatch(p, s) ==
    IF p = <<>> THEN s = <<>>
    ELSE IF Head(p) = "%"
         THEN LikeMatch(Tail(p), s) \/ (s # <<>> /\ LikeMatch(p, Tail(s)))
         ELSE /\ s # <<>>
              /\ (Head(p) = "_" \/ Head(p) = Head(s))
              /\ LikeMatch(Tail(p), Tail(s))

\* column.like(f'%{part}%')
LikeContains(column, part) == LikeMatch(<<"%">> \o part \o <<"%">>, column)

-----------------------------------------------------------------------------
(* Table contacts and its constraints *)

\* Contact(name=..., surname=..., email=..., phone=..., birthday=...,
\*         description=..., user_id=user.id), with the id the sequence gives
ContactRow(id, body, user) ==
    [id |-> id, name |-> body.name, surname |-> body.surname,
     email |-> body.email, phone |-> body.phone, birthday |-> body.birthday,
     description |-> body.description, user_id |-> user]

\* the table without UniqueConstraint('phone')
IntegrityOk_no_unique_phone(db) ==
    \A c1, c2 \in db : (c1.id = c2.id \/ c1.email = c2.email) => c1 = c2

\* PrimaryKeyConstraint('id'), UniqueConstraint('email'), UniqueConstraint('phone')
IntegrityOk(db) ==
    \A c1, c2 \in db :
        (c1.id = c2.id \/ c1.email = c2.email \/ c1.phone = c2.phone) => c1 = c2

\* a commit that writes the pending rows even when it fails
Commit_writes_on_failure(db, pending) == pending

\* db.commit(): the pending rows are written, or the transaction fails
\* with IntegrityError and the table keeps its rows
Commit(db, pending) == IF IntegrityOk(pending) THEN pending ELSE db

\* the id sequence of the table: every insert attempt takes the next value
NextSequenceValue(n) == n + 1

-----------------------------------------------------------------------------
(* What a repository function does: its return value or the error raised *)

NotCalled == [kind |-> "NotCalled", rows |-> {}]
None == [kind |-> "None", rows |-> {}]
IntegrityError == [kind |-> "IntegrityError", rows |-> {}]
ReturnContact(c) == [kind |-> "Contact", rows |-> {c}]
ReturnList(cs) == [kind |-> "List", rows |-> cs]

\* query.first() of a query that a primary key narrows to at most one row
First(rows) == IF rows = {} THEN None ELSE ReturnContact(CHOOSE c \in rows : TRUE)

Min(a, b) == IF a < b THEN a ELSE b
Max(a, b) == IF a > b THEN a ELSE b

-----------------------------------------------------------------------------
(* src/src/repository/contacts.py *)

\* the pages .offset(skip).limit(limit).all() can return: the query has no
\* ORDER BY, so any rows of the right number
get_contacts(skip, limit, user, db) ==
    LET owned == {c \in db : c.user_id = user}
        k == Min(limit, Max(0, Cardinality(owned) - skip))
    IN  {ReturnList(page) : page \in {S \in SUBSET owned : Cardinality(S) = k}}

\* the lookup without its owner filter
get_contact_any_owner(contact_id, user, db) ==
    First({c \in db : c.id = contact_id})

get_contact(contact_id, user, db) ==
    First({c \in db : c.id = contact_id /\ c.user_id = user})

get_contacts_name(name, user, db) ==
    ReturnList({c \in db : LikeContains(c.name, name) /\ c.user_id = user})

get_contacts_surname(surname, user, db) ==
    ReturnList({c \in db : LikeContains(c.surname, surname) /\ c.user_id = user})

get_contacts_email(email_part, user, db) ==
    ReturnList({c \in db : LikeContains(c.email, email_part) /\ c.user_id = user})

\* str(day.day) + str(day.month), and
\* concat(cast(extract(day from birthday)), cast(extract(month from birthday)))
BirthdayKey(dt) == Str(dt.day) \o Str(dt.month)

\* the keys of range(6): the seventh day is left out
BirthdayDays_six_days(today) == {BirthdayKey(AddDays(today, i)) : i \in 0..5}

\* days: the keys of date.today() + timedelta(days=i), i in range(7)
BirthdayDays(today) == {BirthdayKey(AddDays(today, i)) : i \in 0..6}

get_contacts_birthday(user, db, today) ==
    ReturnList({c \in db : BirthdayKey(c.birthday) \in BirthdayDays(today)
                           /\ c.user_id = user})

\* [db |-> the table after the call, ret |-> what the call did]
create_contact(body, user, db, id) ==
    LET contact == ContactRow(id, body, user)
        pending == db \cup {contact}
    IN  [db |-> Commit(db, pending),
         ret |-> IF IntegrityOk(pending) THEN ReturnContact(contact)
                 ELSE IntegrityError]

\* remove by id alone, whoever owns the contact
remove_contact_any_owner(contact_id, user, db) ==
    LET found == First({c \in db : c.id = contact_id})
    IN  IF found.kind = "Contact"
        THEN [db |-> Commit(db, db \ found.rows), ret |-> found]
        ELSE [db |-> db, ret |-> None]

\* remove without db.delete(contact)
remove_contact_no_delete(contact_id, user, db) ==
    [db |-> db, ret |-> get_contact(contact_id, user, db)]

remove_contact(contact_id, user, db) ==
    LET found == get_contact(contact_id, user, db)
    IN  IF found.kind = "Contact"
        THEN [db |-> Commit(db, db \ found.rows), ret |-> found]
        ELSE [db |-> db, ret |-> None]

\* update by id alone, whoever owns the contact
update_contact_any_owner(contact_id, body, user, db) ==
    LET found == First({c \in db : c.id = contact_id})
    IN  IF found.kind = "Contact"
        THEN LET old == CHOOSE c \in found.rows : TRUE
                 contact == ContactRow(old.id, body, old.user_id)
                 pending == (db \ {old}) \cup {contact}
             IN  [db |-> Commit(db, pending),
                  ret |-> IF IntegrityOk(pending) THEN ReturnContact(contact)
                          ELSE IntegrityError]
        ELSE [db |-> db, ret |-> None]

\* update by id alone that also sets contact.user_id = user.id
update_contact_takes_ownership(contact_id, body, user, db) ==
    LET found == First({c \in db : c.id = contact_id})
    IN  IF found.kind = "Contact"
        THEN LET old == CHOOSE c \in found.rows : TRUE
                 contact == ContactRow(old.id, body, user)
                 pending == (db \ {old}) \cup {contact}
             IN  [db |-> Commit(db, pending),
                  ret |-> IF IntegrityOk(pending) THEN ReturnContact(contact)
                          ELSE IntegrityError]
        ELSE [db |-> db, ret |-> None]

\* update that forgets contact.description = body.description
update_contact_keeps_description(contact_id, body, user, db) ==
    LET found == get_contact(contact_id, user, db)
    IN  IF found.kind = "Contact"
        THEN LET old == CHOOSE c \in found.rows : TRUE
                 contact == [old EXCEPT !.name = body.name,
                                        !.surname = body.surname,
                                        !.email = body.email,
                                        !.phone = body.phone,
                                        !.birthday = body.birthday]
                 pending == (db \ {old}) \cup {contact}
             IN  [db |-> Commit(db, pending),
                  ret |-> IF IntegrityOk(pending) THEN ReturnContact(contact)
                          ELSE IntegrityError]
        ELSE [db |-> db, ret |-> None]

update_contact(contact_id, body, user, db) ==
    LET found == get_contact(contact_id, user, db)
    IN  IF found.kind = "Contact"
        THEN LET old == CHOOSE c \in found.rows : TRUE
                 contact == [old EXCEPT !.name = body.name,
                                        !.surname = body.surname,
                                        !.email = body.email,
                                        !.phone = body.phone,
                                        !.birthday = body.birthday,
                                        !.description = body.description]
                 pending == (db \ {old}) \cup {contact}
             IN  [db |-> Commit(db, pending),
                  ret |-> IF IntegrityOk(pending) THEN ReturnContact(contact)
                          ELSE IntegrityError]
        ELSE [db |-> db, ret |-> None]

-----------------------------------------------------------------------------
(* src/src/schemas.py *)

MaxNameLen == 50
MaxSurnameLen == 50
MaxEmailLen == 100
MaxPhoneLen == 15
MaxDescriptionLen == 150

\* ContactBase: name, surname, email, phone, birthday, none with a default
ContactBaseFields == {"name", "surname", "email", "phone", "birthday"}

ValidContactBase(body) ==
    /\ ContactBaseFields \subseteq DOMAIN body
    /\ Len(body.name) <= MaxNameLen
    /\ Len(body.surname) <= MaxSurnameLen
    /\ Len(body.email) <= MaxEmailLen
    /\ Len(body.phone) <= MaxPhoneLen

ContactModelFields == ContactBaseFields \cup {"description"}

\* ContactModel(ContactBase): description: str = Field(max_length=150),
\* a field with no default, so a body must carry it
ValidContactModel(body) ==
    /\ ValidContactBase(body)
    /\ ContactModelFields \subseteq DOMAIN body
    /\ Len(body.description) <= MaxDescriptionLen

\* ContactUpdate(ContactModel): ...
ValidContactUpdate(body) == ValidContactModel(body)

\* ContactResponse(ContactBase) with id, read from the row's attributes
ContactResponse(c) ==
    [id |-> c.id, name |-> c.name, surname |-> c.surname, email |-> c.email,
     phone |-> c.phone, birthday |-> c.birthday]

-----------------------------------------------------------------------------
(* HTTP responses *)

HTTP_200_OK == 200
HTTP_201_CREATED == 201
HTTP_404_NOT_FOUND == 404

Success(status, rows) ==
    [status |-> status, detail |-> "", body |-> {ContactResponse(c) : c \in rows}]

Failure(status, detail) == [status |-> status, detail |-> detail, body |-> {}]

\* raise HTTPException(status_code=status.HTTP_404_NOT_FOUND, detail=...)
NotFound(detail) == Failure(HTTP_404_NOT_FOUND, detail)

\* the framework's answer to a body its schema rejects
ValidationError == Failure(422, "Field required")

\* the framework's answer to an exception no handler catches
ServerError == Failure(500, "Internal Server Error")

-----------------------------------------------------------------------------
(* src/src/routes/contacts.py: the response each handler builds from what   *)
(* its repository function did                                             *)

read_contacts(r) == Success(HTTP_200_OK, r.rows)

read_contact(r) ==
    IF r.kind = "None" THEN NotFound("Contact not found")
    ELSE Success(HTTP_200_OK, r.rows)

read_contacts_name(r) ==
    IF r.rows = {} THEN NotFound("Contact not found")
    ELSE Success(HTTP_200_OK, r.rows)

read_contacts_surname(r) ==
    IF r.rows = {} THEN NotFound("Contact not found")
    ELSE Success(HTTP_200_OK, r.rows)

read_contacts_email(r) ==
    IF r.rows = {} THEN NotFound("Contact not found")
    ELSE Success(HTTP_200_OK, r.rows)

read_birthdays(r) ==
    IF r.rows = {} THEN NotFound("Contacts not found")
    ELSE Success(HTTP_200_OK, r.rows)

\* no handler catches the IntegrityError of db.commit()
create_contact_route(r) ==
    IF r.kind = "IntegrityError" THEN ServerError
    ELSE Success(HTTP_201_CREATED, r.rows)

update_contact_route(r) ==
    IF r.kind = "IntegrityError" THEN ServerError
    ELSE IF r.kind = "None" THEN NotFound("Contact not found")
    ELSE Success(HTTP_200_OK, r.rows)

remove_contact_route(r) ==
    IF r.kind = "None" THEN NotFound("Contact not found")
    ELSE Success(HTTP_200_OK, r.rows)

-----------------------------------------------------------------------------
(* Table users and the tokens of the auth service *)

\* token pairs the auth service issues before the model stops logging in
MaxIssued == 3

Emails == {"u1@x", "u2@x"}

\* a JWT: its scope claim, its subject and the serial of its issue
Token(scope, sub, n) == [scope |-> scope, sub |-> sub, n |-> n]

\* refresh_token is NULL
NoToken == Token("none", "", 0)

\* avatar is NULL
NoAvatar == <<>>

\* Gravatar(body.email).get_image(), when it does not raise
GravatarImage(email) == <<"gravatar", email>>

\* the hash the signup route stores in place of the password
Hash(password) == <<"hash", password>>

\* User(**body.dict(), avatar=avatar): not confirmed, no refresh token
UserRow(id, body, avatar) ==
    [id |-> id, username |-> body.username, email |-> body.email,
     password |-> body.password, avatar |-> avatar, confirmed |-> FALSE,
     refresh_token |-> NoToken]

\* users.email is unique
UsersIntegrityOk(db) ==
    \A u1, u2 \in db : (u1.id = u2.id \/ u1.email = u2.email) => u1 = u2

-----------------------------------------------------------------------------
(* src/src/repository/users.py *)

get_user_by_email(email, db) == First({u \in db : u.email = email})

\* create_user that lets the failure of the avatar lookup through
create_user_propagates(body, gravatar, db) ==
    IF gravatar = "raises"
    THEN [db |-> db, ret |-> [kind |-> "Exception", rows |-> {}]]
    ELSE LET new_user == UserRow(Cardinality(db) + 1, body, GravatarImage(body.email))
             pending == db \cup {new_user}
         IN  IF UsersIntegrityOk(pending)
             THEN [db |-> pending, ret |-> ReturnContact(new_user)]
             ELSE [db |-> db, ret |-> IntegrityError]

\* gravatar: "raises" when Gravatar(...) or get_image() raises, else "ok"
create_user(body, gravatar, db) ==
    LET avatar == IF gravatar = "raises" THEN NoAvatar
                  ELSE GravatarImage(body.email)
        new_user == UserRow(Cardinality(db) + 1, body, avatar)
        pending == db \cup {new_user}
    IN  IF UsersIntegrityOk(pending)
        THEN [db |-> pending, ret |-> ReturnContact(new_user)]
        ELSE [db |-> db, ret |-> IntegrityError]

\* update_token that does not store the token
update_token_not_stored(user, token, db) == db

\* the table after user.refresh_token = token; db.commit()
update_token(user, token, db) ==
    (db \ {user}) \cup {[user EXCEPT !.refresh_token = token]}

\* confirmed_email that does not set the flag
confirmed_email_not_set(email, db) == db

\* the table after user.confirmed = True; db.commit(), for a user that exists
confirmed_email(email, db) ==
    LET found == get_user_by_email(email, db)
        user == CHOOSE u \in found.rows : TRUE
    IN  (db \ {user}) \cup {[user EXCEPT !.confirmed = TRUE]}

\* the table after user.avatar = url; db.commit(), for a user that exists
update_avatar(email, url, db) ==
    LET found == get_user_by_email(email, db)
        user == CHOOSE u \in found.rows : TRUE
    IN  [db |-> (db \ {user}) \cup {[user EXCEPT !.avatar = url]},
         ret |-> ReturnContact([user EXCEPT !.avatar = url])]

-----------------------------------------------------------------------------
(* The auth service and the auth routes, as the specification describes    *)
(* them (sections 4.3, 6 and 7)                                            *)

create_access_token(sub, n) == Token("access_token", sub, n)
create_refresh_token(sub, n) == Token("refresh_token", sub, n)
create_email_token(sub, n) == Token("email_token", sub, n)

\* what a request presents as its token: nothing, a string that is no JWT
\* of the service, or a JWT of the service, expired or not when presented
NoCredentials == [kind |-> "none", token |-> NoToken, expired |-> FALSE]
Malformed == [kind |-> "malformed", token |-> NoToken, expired |-> FALSE]
Presented(token, expired) == [kind |-> "jwt", token |-> token, expired |-> expired]

\* verification: a JWT of the service, not expired, of the expected scope
Decodes(presented, scope) ==
    /\ presented.kind = "jwt"
    /\ ~presented.expired
    /\ presented.token.scope = scope

\* the user of the access token, None when the token is rejected or its
\* subject is no user
get_current_user(presented, db) ==
    IF Decodes(presented, "access_token")
    THEN get_user_by_email(presented.token.sub, db)
    ELSE None

Unauthorized(detail) == Failure(401, detail)

\* the token pair of a login or refresh
TokenResponse(sub, n) ==
    [status |-> 200, detail |-> "",
     body |-> {[access_token |-> create_access_token(sub, n),
                refresh_token |-> create_refresh_token(sub, n),
                token_type |-> "bearer"]}]

-----------------------------------------------------------------------------
(* The inputs the requests are drawn from *)

Body(n, s, e, p, b, d) ==
    [name |-> n, surname |-> s, email |-> e, phone |-> p, birthday |-> b,
     description |-> d]

\* a JSON body that does not carry key
Without(body, key) == [k \in DOMAIN body \ {key} |-> body[k]]

BodyA == Body(<<"a", "b">>, <<"c", "d">>, <<"a", "@", "x">>, <<"1">>,
              Date(1990, 2, 11), <<"n">>)
BodyB == Body(<<"A", "b">>, <<"C", "d">>, <<"b", "@", "x">>, <<"2">>,
              Date(1985, 12, 1), <<>>)
\* the email of BodyA
BodyC == Body(<<"a", "_">>, <<"c", "d">>, <<"a", "@", "x">>, <<"3">>,
              Date(2000, 2, 29), <<"n">>)
\* the phone of BodyA
BodyD == Body(<<"a", "b">>, <<"d">>, <<"c", "_", "x">>, <<"1">>,
              Date(1999, 1, 3), <<>>)
BodyE == Body(<<"b">>, <<"e">>, <<"d", "@", "x">>, <<"4">>,
              Date(1990, 5, 15), <<"m">>)

FullBodies == {BodyA, BodyB, BodyC, BodyD, BodyE}

\* bodies that omit keys: all but the description, and the surname alone
PartialBodies ==
    {Without(BodyA, "description"), Without(BodyE, "description"),
     [k \in {"surname"} |-> <<"N", "e", "w">>]}

RequestBodies == FullBodies \cup PartialBodies

SearchParts == {<<"a">>, <<"_">>, <<"@", "x">>, <<"z">>}

Todays == {Date(2023, 11, 25), Date(2023, 12, 28), Date(2024, 2, 25),
           Date(2023, 2, 25), Date(2023, 5, 10)}

\* skip: int = 0, limit: int = 100
DefaultSkip == 0
DefaultLimit == 100
Skips == {DefaultSkip, 1}
Limits == {1, DefaultLimit}

NoBody == [k \in {} |-> <<>>]
NoDate == Date(1, 1, 1)

Request(op, user) ==
    [op |-> op, user |-> user, id |-> 0, body |-> NoBody, arg |-> <<>>,
     skip |-> 0, limit |-> 0, today |-> NoDate]

AuthRequest(op) ==
    [op |-> op, email |-> "", password |-> "", presented |-> NoCredentials,
     gravatar |-> "ok", body |-> NoBody]

-----------------------------------------------------------------------------
(* Workers that run create_contact at the same time, each in its own
   database session *)

Workers == {1, 2}

\* pc: "idle", "added" (after db.add), "numbered" (the INSERT took its id),
\* "inserted" (the row is written, not committed), "done" (returned/raised)
NoTxn == [pc |-> "idle", user |-> 0, body |-> NoBody, id |-> 0, ret |-> NotCalled]

\* two rows that the unique constraints keep apart
Conflict(r1, r2) == r1.id = r2.id \/ r1.email = r2.email \/ r1.phone = r2.phone

\* an INSERT that looks at the committed rows only
InsertOutcome_committed_only(row, committed, inflight) ==
    IF \E c \in committed : Conflict(row, c) THEN "error" ELSE "ok"

\* the INSERT of row under the unique constraints: "error" when a committed
\* row holds its email or phone, "wait" while an uncommitted row of another
\* session does, else "ok"
InsertOutcome(row, committed, inflight) ==
    IF \E c \in committed : Conflict(row, c) THEN "error"
    ELSE IF \E c \in inflight : Conflict(row, c) THEN "wait"
    ELSE "ok"

-----------------------------------------------------------------------------
(* The rate limiter of the routes: RateLimiter(times=10, seconds=60) *)

RateLimitTimes == 10
RateLimitSeconds == 60

\* the step of the clock
HalfWindow == RateLimitSeconds \div 2

\* the paths and methods of the limited routes
Paths == {"/api/contacts/"}
Methods == {"GET", "POST"}

\* the key of a route's counter for the one client: the limiter's build
\* decides whether two routes of one path share it
Keys == Paths \X (Methods \cup {"*"})
RouteKey(path, method, byMethod) == IF byMethod THEN <<path, method>> ELSE <<path, "*">>

\* a key that is not set: no counter, no time to live
NoKey == [count |-> 0, pttl |-> 0]

FreshLimiter(byMethod) == [byMethod |-> byMethod, keys |-> [k \in Keys |-> NoKey]]

\* a limiter that lets every request through
RateLimiter_unlimited(lim, key) ==
    [pexpire |-> 0,
     limiter |-> [lim EXCEPT !.keys[key] =
                    IF @.count > 0 THEN [@ EXCEPT !.count = @ + 1]
                    ELSE [count |-> 1, pttl |-> RateLimitSeconds]]]

\* the limiter's check of one request: the first request sets the key to 1
\* with a time to live of seconds, the next ones increment it, and once it
\* holds times the request is refused (pexpire: the key's time to live)
RateLimiter(lim, key) ==
    LET current == lim.keys[key]
    IN  IF current.count > 0
        THEN IF current.count + 1 > RateLimitTimes
             THEN [pexpire |-> current.pttl, limiter |-> lim]
             ELSE [pexpire |-> 0,
                   limiter |-> [lim EXCEPT !.keys[key].count = @ + 1]]
        ELSE [pexpire |-> 0,
              limiter |-> [lim EXCEPT !.keys[key] =
                             [count |-> 1, pttl |-> RateLimitSeconds]]]

\* the keys after d seconds: a key whose time to live ran out is deleted
Elapse(lim, d) ==
    [lim EXCEPT !.keys = [k \in Keys |->
        IF lim.keys[k].pttl > d
        THEN [lim.keys[k] EXCEPT !.pttl = @ - d]
        ELSE NoKey]]

TooManyRequests == Failure(429, "Too Many Requests")

SignupBodies ==
    {[username |-> "user01", email |-> "u1@x", password |-> "secret1"],
     [username |-> "user02", email |-> "u2@x", password |-> "secret2"]}

Passwords == {"secret1", "secret2"}

\* the users of the contact requests: signed up, confirmed and logged in
RegisteredUsers ==
    {[UserRow(1, [username |-> "user01", email |-> "u1@x",
                  password |-> Hash("secret1")], GravatarImage("u1@x"))
         EXCEPT !.confirmed = TRUE,
                !.refresh_token = create_refresh_token("u1@x", 1)],
     [UserRow(2, [username |-> "user02", email |-> "u2@x",
                  password |-> Hash("secret2")], NoAvatar)
         EXCEPT !.confirmed = TRUE,
                !.refresh_token = create_refresh_token("u2@x", 2)]}

-----------------------------------------------------------------------------
(* The requests, each by an authenticated user *)

Init ==
    /\ contacts = {}
    /\ nextId = 1
    /\ req = Request("none", 0)
    /\ ret = NotCalled
    /\ resp = Failure(0, "")
    /\ removed = {}
    /\ users = RegisteredUsers
    /\ issued = <<"u1@x", "u2@x">>
    /\ confirmedEmails = {u.email : u \in RegisteredUsers}
    /\ limiter = FreshLimiter(TRUE)
    /\ bearer = NoCredentials
    /\ recent = [prev |-> 0, cur |-> 0]
    /\ txn = [w \in Workers |-> NoTxn]

\* no request is being handled
Idle == req.op = "none"

\* GET /api/contacts/
ReadContacts(user, skip, limit) ==
    /\ Idle
    /\ req' = [Request("read_contacts", user) EXCEPT !.skip = skip, !.limit = limit]
    /\ ret' \in get_contacts(skip, limit, user, contacts)
    /\ resp' = read_contacts(ret')
    /\ UNCHANGED <<contacts, nextId, removed>>

\* GET /api/contacts/{contact_id}
ReadContact(user, contact_id) ==
    /\ Idle
    /\ req' = [Request("read_contact", user) EXCEPT !.id = contact_id]
    /\ ret' = get_contact(contact_id, user, contacts)
    /\ resp' = read_contact(ret')
    /\ UNCHANGED <<contacts, nextId, removed>>

\* GET /api/contacts/search/name
ReadContactsName(user, name) ==
    /\ Idle
    /\ req' = [Request("read_contacts_name", user) EXCEPT !.arg = name]
    /\ ret' = get_contacts_name(name, user, contacts)
    /\ resp' = read_contacts_name(ret')
    /\ UNCHANGED <<contacts, nextId, removed>>

\* GET /api/contacts/search/surname
ReadContactsSurname(user, surname) ==
    /\ Idle
    /\ req' = [Request("read_contacts_surname", user) EXCEPT !.arg = surname]
    /\ ret' = get_contacts_surname(surname, user, contacts)
    /\ resp' = read_contacts_surname(ret')
    /\ UNCHANGED <<contacts, nextId, removed>>

\* GET /api/contacts/search/email
ReadContactsEmail(user, email) ==
    /\ Idle
    /\ req' = [Request("read_contacts_email", user) EXCEPT !.arg = email]
    /\ ret' = get_contacts_email(email, user, contacts)
    /\ resp' = read_contacts_email(ret')
    /\ UNCHANGED <<contacts, nextId, removed>>

\* GET /api/contacts/search/birthdays, on the day today
ReadBirthdays(user, today) ==
    /\ Idle
    /\ req' = [Request("read_birthdays", user) EXCEPT !.today = today]
    /\ ret' = get_contacts_birthday(user, contacts, today)
    /\ resp' = read_birthdays(ret')
    /\ UNCHANGED <<contacts, nextId, removed>>

\* POST /api/contacts/
CreateContact(user, body) ==
    /\ Idle
    /\ req' = [Request("create_contact", user) EXCEPT !.body = body]
    /\ IF ValidContactModel(body)
       THEN /\ nextId <= MaxId
            /\ LET done == create_contact(body, user, contacts, nextId)
               IN  /\ contacts' = done.db
                   /\ ret' = done.ret
                   /\ resp' = create_contact_route(done.ret)
            /\ nextId' = NextSequenceValue(nextId)
       ELSE /\ ret' = NotCalled
            /\ resp' = ValidationError
            /\ UNCHANGED <<contacts, nextId>>
    /\ UNCHANGED removed

\* PUT /api/contacts/{contact_id}
UpdateContact(user, contact_id, body) ==
    /\ Idle
    /\ req' = [Request("update_contact", user) EXCEPT !.id = contact_id,
                                                      !.body = body]
    /\ IF ValidContactUpdate(body)
       THEN LET done == update_contact(contact_id, body, user, contacts)
            IN  /\ contacts' = done.db
                /\ ret' = done.ret
                /\ resp' = update_contact_route(done.ret)
       ELSE /\ ret' = NotCalled
            /\ resp' = ValidationError
            /\ UNCHANGED contacts
    /\ UNCHANGED <<nextId, removed>>

\* DELETE /api/contacts/{contact_id}
RemoveContact(user, contact_id) ==
    /\ Idle
    /\ req' = [Request("remove_contact", user) EXCEPT !.id = contact_id]
    /\ LET done == remove_contact(contact_id, user, contacts)
       IN  /\ contacts' = done.db
           /\ ret' = done.ret
           /\ resp' = remove_contact_route(done.ret)
           /\ removed' = IF done.ret.kind = "Contact"
                         THEN removed \cup {<<user, contact_id>>}
                         ELSE removed
    /\ UNCHANGED nextId

\* the response is sent and the request's objects (its body, its session,
\* its result) are dropped: each request is handled on its own
Complete ==
    /\ ~Idle
    /\ req' = Request("none", 0)
    /\ ret' = NotCalled
    /\ resp' = Failure(0, "")
    /\ bearer' = NoCredentials
    /\ UNCHANGED <<contacts, nextId, removed, userVars, limiter, recent, txn>>

Next ==
    \/ \E u \in Users, s \in Skips, l \in Limits : ReadContacts(u, s, l) /\ UNCHANGED <<userVars, gateVars, txn>>
    \/ \E u \in Users, i \in ContactIds : ReadContact(u, i) /\ UNCHANGED <<userVars, gateVars, txn>>
    \/ \E u \in Users, p \in SearchParts : ReadContactsName(u, p) /\ UNCHANGED <<userVars, gateVars, txn>>
    \/ \E u \in Users, p \in SearchParts : ReadContactsSurname(u, p) /\ UNCHANGED <<userVars, gateVars, txn>>
    \/ \E u \in Users, p \in SearchParts : ReadContactsEmail(u, p) /\ UNCHANGED <<userVars, gateVars, txn>>
    \/ \E u \in Users, t \in Todays : ReadBirthdays(u, t) /\ UNCHANGED <<userVars, gateVars, txn>>
    \/ \E u \in Users, b \in RequestBodies : CreateContact(u, b) /\ UNCHANGED <<userVars, gateVars, txn>>
    \/ \E u \in Users, i \in ContactIds, b \in RequestBodies : UpdateContact(u, i, b) /\ UNCHANGED <<userVars, gateVars, txn>>
    \/ \E u \in Users, i \in ContactIds : RemoveContact(u, i) /\ UNCHANGED <<userVars, gateVars, txn>>
    \/ Complete

Spec == Init /\ [][Next]_vars

-----------------------------------------------------------------------------
(* The requests of the auth routes *)

Scopes == {"access_token", "refresh_token", "email_token"}

\* the service issued this access or refresh token; an email token carries
\* no serial the service keeps
WasIssued(presented) ==
    presented.kind = "jwt" =>
        \/ presented.token.scope = "email_token"
        \/ /\ presented.token.n \in 1..Len(issued)
           /\ issued[presented.token.n] = presented.token.sub

PresentedTokens ==
    {NoCredentials, Malformed} \cup
    {Presented(Token(sc, e, n), x) :
        sc \in Scopes, e \in Emails, n \in 1..MaxIssued, x \in BOOLEAN}

InitAuth ==
    /\ contacts = {}
    /\ nextId = 1
    /\ req = Request("none", 0)
    /\ ret = NotCalled
    /\ resp = Failure(0, "")
    /\ removed = {}
    /\ users = {}
    /\ issued = <<>>
    /\ confirmedEmails = {}
    /\ limiter = FreshLimiter(TRUE)
    /\ bearer = NoCredentials
    /\ recent = [prev |-> 0, cur |-> 0]
    /\ txn = [w \in Workers |-> NoTxn]

\* POST /api/auth/signup; gravatar: whether the avatar lookup raises
Signup(body, gravatar) ==
    /\ Idle
    /\ req' = [AuthRequest("signup") EXCEPT !.email = body.email,
                                            !.password = body.password,
                                            !.gravatar = gravatar,
                                            !.body = body]
    /\ IF get_user_by_email(body.email, users).kind # "None"
       THEN /\ ret' = NotCalled
            /\ resp' = Failure(409, "Account already exists")
            /\ UNCHANGED users
       ELSE LET done == create_user([body EXCEPT !.password = Hash(body.password)],
                                    gravatar, users)
            IN  /\ users' = done.db
                /\ ret' = done.ret
                /\ resp' = IF done.ret.kind = "Contact"
                           THEN [status |-> HTTP_201_CREATED,
                                 detail |-> "User successfully created",
                                 body |-> {[id |-> u.id, email |-> u.email,
                                            avatar |-> u.avatar] : u \in done.ret.rows}]
                           ELSE ServerError
    /\ UNCHANGED <<contacts, nextId, removed, issued, confirmedEmails>>

\* GET /api/auth/confirmed_email/{token}
ConfirmedEmail(presented) ==
    /\ Idle
    /\ WasIssued(presented)
    /\ req' = [AuthRequest("confirmed_email") EXCEPT !.presented = presented,
                                                     !.email = presented.token.sub]
    /\ ret' = IF Decodes(presented, "email_token")
              THEN get_user_by_email(presented.token.sub, users)
              ELSE NotCalled
    /\ IF ~Decodes(presented, "email_token")
       THEN /\ resp' = Unauthorized("Invalid token for email verification")
            /\ UNCHANGED <<users, confirmedEmails>>
       ELSE IF ret'.kind = "None"
       THEN /\ resp' = Failure(400, "Verification error")
            /\ UNCHANGED <<users, confirmedEmails>>
       ELSE IF \E u \in ret'.rows : u.confirmed
       THEN /\ resp' = [status |-> 200, detail |-> "Your email is already confirmed",
                        body |-> {}]
            /\ UNCHANGED <<users, confirmedEmails>>
       ELSE /\ users' = confirmed_email(presented.token.sub, users)
            /\ confirmedEmails' = confirmedEmails \cup {presented.token.sub}
            /\ resp' = [status |-> 200, detail |-> "Email confirmed", body |-> {}]
    /\ UNCHANGED <<contacts, nextId, removed, issued>>

\* POST /api/auth/login
Login(email, password) ==
    /\ Idle
    /\ req' = [AuthRequest("login") EXCEPT !.email = email, !.password = password]
    /\ ret' = get_user_by_email(email, users)
    /\ IF ret'.kind = "None"
       THEN resp' = Unauthorized("Invalid email") /\ UNCHANGED <<users, issued>>
       ELSE LET user == CHOOSE u \in ret'.rows : TRUE
            IN  IF ~user.confirmed
                THEN /\ resp' = Unauthorized("Email not confirmed")
                     /\ UNCHANGED <<users, issued>>
                ELSE IF user.password # Hash(password)
                THEN /\ resp' = Unauthorized("Invalid password")
                     /\ UNCHANGED <<users, issued>>
                ELSE /\ Len(issued) < MaxIssued
                     /\ issued' = Append(issued, email)
                     /\ users' = update_token(
                            user, create_refresh_token(email, Len(issued) + 1), users)
                     /\ resp' = TokenResponse(email, Len(issued) + 1)
    /\ UNCHANGED <<contacts, nextId, removed, confirmedEmails>>

\* GET /api/auth/refresh_token. The specification leaves open whether a
\* refused token also clears the stored one
RefreshToken(presented) ==
    /\ Idle
    /\ WasIssued(presented)
    /\ req' = [AuthRequest("refresh_token") EXCEPT !.presented = presented,
                                                   !.email = presented.token.sub]
    /\ ret' = IF Decodes(presented, "refresh_token")
              THEN get_user_by_email(presented.token.sub, users)
              ELSE NotCalled
    /\ IF ret'.kind # "Contact"
       THEN /\ resp' = Unauthorized("Could not validate credentials")
            /\ UNCHANGED <<users, issued>>
       ELSE LET user == CHOOSE u \in ret'.rows : TRUE
            IN  IF user.refresh_token # presented.token
                THEN /\ resp' = Unauthorized("Invalid refresh token")
                     /\ users' \in {users, update_token(user, NoToken, users)}
                     /\ UNCHANGED issued
                ELSE /\ Len(issued) < MaxIssued
                     /\ issued' = Append(issued, user.email)
                     /\ users' = update_token(
                            user, create_refresh_token(user.email, Len(issued) + 1),
                            users)
                     /\ resp' = TokenResponse(user.email, Len(issued) + 1)
    /\ UNCHANGED <<contacts, nextId, removed, confirmedEmails>>

\* logout: the refresh token of the access token's user is cleared
Logout(presented) ==
    /\ Idle
    /\ WasIssued(presented)
    /\ req' = [AuthRequest("logout") EXCEPT !.presented = presented,
                                            !.email = presented.token.sub]
    /\ ret' = get_current_user(presented, users)
    /\ IF ret'.kind = "None"
       THEN /\ resp' = Unauthorized("Could not validate credentials")
            /\ UNCHANGED users
       ELSE /\ users' = update_token(CHOOSE u \in ret'.rows : TRUE, NoToken, users)
            /\ resp' = [status |-> 200, detail |-> "Logged out", body |-> {}]
    /\ UNCHANGED <<contacts, nextId, removed, issued, confirmedEmails>>

NextAuth ==
    \/ \E b \in SignupBodies, g \in {"ok", "raises"} : Signup(b, g) /\ UNCHANGED <<gateVars, txn>>
    \/ \E t \in PresentedTokens : ConfirmedEmail(t) /\ UNCHANGED <<gateVars, txn>>
    \/ \E e \in Emails, p \in Passwords : Login(e, p) /\ UNCHANGED <<gateVars, txn>>
    \/ \E t \in PresentedTokens : RefreshToken(t) /\ UNCHANGED <<gateVars, txn>>
    \/ \E t \in PresentedTokens : Logout(t) /\ UNCHANGED <<gateVars, txn>>
    \/ Complete

SpecAuth == InitAuth /\ [][NextAuth]_vars

-----------------------------------------------------------------------------
(* The contact requests from the limiter on: each route is declared with
   dependencies=[Depends(RateLimiter(times=10, seconds=60))], which runs
   before Depends(auth_service.get_current_user), which runs before the
   handler *)

\* the credentials a request can carry: none, no JWT, the access token of
\* user u1@x (valid, expired), that user's refresh and email tokens, and
\* the access token of u2@x, whose row is gone from table users
GateTokens ==
    {NoCredentials, Malformed,
     Presented(create_access_token("u1@x", 1), FALSE),
     Presented(create_access_token("u1@x", 1), TRUE),
     Presented(create_refresh_token("u1@x", 1), FALSE),
     Presented(create_email_token("u1@x", 1), FALSE),
     Presented(create_access_token("u2@x", 2), FALSE)}

GateBodies == {BodyA}

InitGate ==
    /\ contacts = {}
    /\ nextId = 1
    /\ req = Request("none", 0)
    /\ ret = NotCalled
    /\ resp = Failure(0, "")
    /\ removed = {}
    /\ users = {u \in RegisteredUsers : u.email = "u1@x"}
    /\ issued = <<"u1@x", "u2@x">>
    /\ confirmedEmails = {"u1@x", "u2@x"}
    /\ limiter \in {FreshLimiter(TRUE), FreshLimiter(FALSE)}
    /\ bearer = NoCredentials
    /\ recent = [prev |-> 0, cur |-> 0]
    /\ txn = [w \in Workers |-> NoTxn]

\* a route declared without the dependency: any request is some user's
Depends_current_user_absent(token, db) == First(db)

\* current_user: User = Depends(auth_service.get_current_user)
Depends_current_user(token, db) == get_current_user(token, db)

\* the request is answered by a dependency: the handler is not entered
Refused(op, response) ==
    /\ Idle
    /\ req' = Request(op, 0)
    /\ ret' = NotCalled
    /\ resp' = response
    /\ UNCHANGED <<contacts, nextId, removed>>

\* GET /api/contacts/ with the default skip and limit
GateReadContacts(token) ==
    LET checked == RateLimiter(
            limiter, RouteKey("/api/contacts/", "GET", limiter.byMethod))
        current_user == Depends_current_user(token, users)
    IN  /\ bearer' = token
        /\ limiter' = checked.limiter
        /\ recent' = IF checked.pexpire = 0
                     THEN [recent EXCEPT !.cur = @ + 1]
                     ELSE recent
        /\ IF checked.pexpire # 0
           THEN Refused("read_contacts", TooManyRequests)
           ELSE IF current_user.kind = "None"
           THEN Refused("read_contacts",
                        Unauthorized("Could not validate credentials"))
           ELSE ReadContacts((CHOOSE u \in current_user.rows : TRUE).id,
                             DefaultSkip, DefaultLimit)
        /\ UNCHANGED userVars

\* POST /api/contacts/
GateCreateContact(token, body) ==
    LET checked == RateLimiter(
            limiter, RouteKey("/api/contacts/", "POST", limiter.byMethod))
        current_user == Depends_current_user(token, users)
    IN  /\ bearer' = token
        /\ limiter' = checked.limiter
        /\ IF checked.pexpire # 0
           THEN Refused("create_contact", TooManyRequests)
           ELSE IF current_user.kind = "None"
           THEN Refused("create_contact",
                        Unauthorized("Could not validate credentials"))
           ELSE CreateContact((CHOOSE u \in current_user.rows : TRUE).id, body)
        /\ UNCHANGED <<userVars, recent>>

\* half a window passes between two requests
Advance ==
    /\ Idle
    /\ limiter' = Elapse(limiter, HalfWindow)
    /\ recent' = [prev |-> recent.cur, cur |-> 0]
    /\ UNCHANGED <<contacts, nextId, req, ret, resp, removed, userVars, bearer>>

NextGate ==
    \/ \E t \in GateTokens : GateReadContacts(t) /\ UNCHANGED txn
    \/ \E t \in GateTokens, b \in GateBodies : GateCreateContact(t, b) /\ UNCHANGED txn
    \/ Advance /\ UNCHANGED txn
    \/ Complete

SpecGate == InitGate /\ [][NextGate]_vars

-----------------------------------------------------------------------------
(* create_contact of the repository, statement by statement, in two workers *)

ConcBodies == {BodyA, BodyC, BodyD}

\* the row a worker is inserting
RowOf(t) == ContactRow(t.id, t.body, t.user)

\* the rows written and not yet committed by the workers other than w
Inflight(w) == {RowOf(txn[v]) : v \in {v \in Workers \ {w} : txn[v].pc = "inserted"}}

InitConc ==
    /\ contacts = {}
    /\ nextId = 1
    /\ req = Request("none", 0)
    /\ ret = NotCalled
    /\ resp = Failure(0, "")
    /\ removed = {}
    /\ users = RegisteredUsers
    /\ issued = <<"u1@x", "u2@x">>
    /\ confirmedEmails = {u.email : u \in RegisteredUsers}
    /\ limiter = FreshLimiter(TRUE)
    /\ bearer = NoCredentials
    /\ recent = [prev |-> 0, cur |-> 0]
    /\ txn = [w \in Workers |-> NoTxn]

\* contact = Contact(...); db.add(contact)
Add(w, user, body) ==
    /\ txn[w].pc = "idle"
    /\ txn' = [txn EXCEPT ![w] = [NoTxn EXCEPT !.pc = "added", !.user = user,
                                               !.body = body]]
    /\ UNCHANGED <<contacts, nextId>>

\* db.commit(), the flush: the INSERT takes the next id of the sequence
TakeId(w) ==
    /\ txn[w].pc = "added"
    /\ nextId <= MaxId
    /\ txn' = [txn EXCEPT ![w].pc = "numbered", ![w].id = nextId]
    /\ nextId' = NextSequenceValue(nextId)
    /\ UNCHANGED contacts

\* db.commit(), the flush: the INSERT writes the row or raises; it waits
\* while another session's uncommitted row holds its email or phone
Insert(w) ==
    /\ txn[w].pc = "numbered"
    /\ LET outcome == InsertOutcome(RowOf(txn[w]), contacts, Inflight(w))
       IN  /\ outcome # "wait"
           /\ txn' = IF outcome = "ok"
                     THEN [txn EXCEPT ![w].pc = "inserted"]
                     ELSE [txn EXCEPT ![w].pc = "done", ![w].ret = IntegrityError]
    /\ UNCHANGED <<contacts, nextId>>

\* db.commit(), the COMMIT; db.refresh(contact); return contact
CommitInsert(w) ==
    /\ txn[w].pc = "inserted"
    /\ contacts' = contacts \cup {RowOf(txn[w])}
    /\ txn' = [txn EXCEPT ![w].pc = "done", ![w].ret = ReturnContact(RowOf(txn[w]))]
    /\ UNCHANGED nextId

\* the call is over and the worker takes the next request
Return(w) ==
    /\ txn[w].pc = "done"
    /\ txn' = [txn EXCEPT ![w] = NoTxn]
    /\ UNCHANGED <<contacts, nextId>>

\* what the repository call leaves alone
requestVars == <<req, ret, resp, removed, userVars, gateVars>>

NextConc ==
    \/ \E w \in Workers, u \in Users, b \in ConcBodies :
        Add(w, u, b) /\ UNCHANGED requestVars
    \/ \E w \in Workers : TakeId(w) /\ UNCHANGED requestVars
    \/ \E w \in Workers : Insert(w) /\ UNCHANGED requestVars
    \/ \E w \in Workers : CommitInsert(w) /\ UNCHANGED requestVars
    \/ \E w \in Workers : Return(w) /\ UNCHANGED requestVars

SpecConc == InitConc /\ [][NextConc]_vars

-----------------------------------------------------------------------------
(* Properties *)

ByIdOps == {"read_contact", "update_contact", "remove_contact"}

SearchOps == {"read_contacts_name", "read_contacts_surname", "read_contacts_email"}

\* the repository function of the request is called: a PUT body passed its schema
RepositoryCalled(r) == r.op = "update_contact" => ValidContactUpdate(r.body)

\* no row of db has this id and this owner
NotOwned(contact_id, user, db) ==
    ~ \E c \in db : c.id = contact_id /\ c.user_id = user

\* C1: ownership isolation. Whatever request a user makes, every contact
\* owned by another user stays stored and unchanged, is not among the rows
\* the repository function returns and is not in the response.
C1_OwnershipIsolation ==
    [][\A c \in contacts :
          (req'.op # "none" /\ c.user_id # req'.user) =>
              /\ c \in contacts'
              /\ c \notin ret'.rows
              /\ ContactResponse(c) \notin resp'.body]_vars

\* a user has asked to update, with a body the schema accepts, the id of a
\* contact another user owns
C1_Witness ==
    /\ req.op = "update_contact"
    /\ ValidContactUpdate(req.body)
    /\ \E c \in contacts : c.id = req.id /\ c.user_id # req.user

\* C4: get_contact, update_contact and remove_contact called with an id that
\* is not stored, or stored for another user, return None (they do not raise)
\* and leave the stored contacts unchanged.
C4_AbsentOrForeignIsNone ==
    [][(/\ req'.op \in ByIdOps
        /\ RepositoryCalled(req')
        /\ NotOwned(req'.id, req'.user, contacts)) =>
            (ret' = None /\ contacts' = contacts)]_vars

\* a user has asked to remove the id of a contact another user owns
C4_Witness ==
    /\ req.op = "remove_contact"
    /\ ret = None
    /\ \E c \in contacts : c.id = req.id /\ c.user_id # req.user

\* C2: get_contacts_birthday called on day D by a user returns exactly the
\* user's contacts whose birthday (day, month) is the (day, month) of one of
\* the dates D, D+1, ..., D+6.
BirthdayWindow(today) ==
    {<<AddDays(today, i).day, AddDays(today, i).month>> : i \in 0..6}

C2_BirthdayExactlyTheWindow ==
    req.op = "read_birthdays" =>
        ret.rows = {c \in contacts :
                       /\ c.user_id = req.user
                       /\ <<c.birthday.day, c.birthday.month>>
                              \in BirthdayWindow(req.today)}

\* C3: creating a contact whose email is the email of a stored contact
\* fails, and the create endpoint answers it with a conflict (409).
C3_DuplicateEmailIsConflict ==
    [][(/\ req'.op = "create_contact"
        /\ ValidContactModel(req'.body)
        /\ \E c \in contacts : c.email = req'.body.email) =>
            (contacts' = contacts /\ resp'.status = 409)]_vars

\* C5: a POST whose body gives name, surname, email, phone and birthday and
\* omits the description, with an email and a phone no stored contact has,
\* answers 201 with the contact created under a generated id.
C5_CreateWithoutDescription ==
    (/\ req.op = "create_contact"
     /\ DOMAIN req.body = ContactBaseFields
     /\ \A c \in contacts : c.email # req.body.email /\ c.phone # req.body.phone)
        => resp.status = HTTP_201_CREATED

C8_PartialUpdateKeepsOmitted ==
    [][\A c \in contacts :
          (/\ req'.op = "update_contact"
           /\ DOMAIN req'.body # {}
           /\ DOMAIN req'.body # ContactModelFields
           /\ c.id = req'.id
           /\ c.user_id = req'.user) =>
              /\ resp'.status = HTTP_200_OK
              /\ \E n \in contacts' :
                    /\ n.id = c.id
                    /\ \A k \in ContactModelFields :
                          n[k] = IF k \in DOMAIN req'.body THEN req'.body[k]
                                 ELSE c[k]]_vars

\* the stored contact with all six fields of the body, id and owner kept
Overwritten(c, body) ==
    [id |-> c.id, user_id |-> c.user_id, name |-> body.name,
     surname |-> body.surname, email |-> body.email, phone |-> body.phone,
     birthday |-> body.birthday, description |-> body.description]

\* another stored contact holds the email or the phone of the body
HeldByAnother(contact_id, body, db) ==
    \E o \in db : o.id # contact_id /\ (o.email = body.email \/ o.phone = body.phone)

\* C9 as stated: update_contact(id, body) on a contact the caller owns
\* overwrites all six fields with the body's values and returns the updated
\* contact; on any other id it changes nothing and returns None.
C9_UpdateOverwritesAllFields ==
    [][(req'.op = "update_contact" /\ ValidContactUpdate(req'.body)) =>
          IF NotOwned(req'.id, req'.user, contacts)
          THEN ret' = None /\ contacts' = contacts
          ELSE \E c \in contacts :
                  /\ c.id = req'.id
                  /\ c.user_id = req'.user
                  /\ ret' = ReturnContact(Overwritten(c, req'.body))
                  /\ contacts' = (contacts \ {c}) \cup {Overwritten(c, req'.body)}]_vars

\* C9 amended: update_contact(id, body) on a contact the caller owns
\* overwrites all six fields with the body's values and returns the updated
\* contact, unless another stored contact holds the body's email or phone:
\* then the commit raises IntegrityError and no stored contact changes. On
\* any other id it changes nothing and returns None.
C9_UpdateOverwritesUnlessHeld ==
    [][(req'.op = "update_contact" /\ ValidContactUpdate(req'.body)) =>
          IF NotOwned(req'.id, req'.user, contacts)
          THEN ret' = None /\ contacts' = contacts
          ELSE IF HeldByAnother(req'.id, req'.body, contacts)
          THEN ret' = IntegrityError /\ contacts' = contacts
          ELSE \E c \in contacts :
                  /\ c.id = req'.id
                  /\ c.user_id = req'.user
                  /\ ret' = ReturnContact(Overwritten(c, req'.body))
                  /\ contacts' = (contacts \ {c}) \cup {Overwritten(c, req'.body)}]_vars

\* an update of an owned contact has stored the body's six values
C9_Witness ==
    /\ req.op = "update_contact"
    /\ ret.kind = "Contact"
    /\ resp.status = HTTP_200_OK
    /\ \E c \in contacts :
          /\ c.id = req.id
          /\ c.user_id = req.user
          /\ \A k \in ContactModelFields : c[k] = req.body[k]

\* sub occurs in s, character for character
Contains(s, sub) ==
    \E i \in 0..(Len(s) - Len(sub)) : SubSeq(s, i + 1, i + Len(sub)) = sub

SearchedField(op) ==
    IF op = "read_contacts_name" THEN "name"
    ELSE IF op = "read_contacts_surname" THEN "surname" ELSE "email"

\* C10: a search by name, surname or email returns exactly the caller's
\* contacts whose field contains the substring, case-sensitively; when none
\* does it returns an empty sequence, answered as a success and not an error.
C10_SearchIsSubstringMatch ==
    req.op \in SearchOps =>
        /\ ret.rows = {c \in contacts :
                          /\ c.user_id = req.user
                          /\ Contains(c[SearchedField(req.op)], req.arg)}
        /\ ret.rows = {} => (ret.kind = "List" /\ resp = Success(HTTP_200_OK, {}))

\* C11: in every reachable state no two stored contacts have the same
\* email and no two stored contacts have the same phone.
C11_EmailAndPhoneUnique ==
    \A c1, c2 \in contacts :
        c1 # c2 => (c1.email # c2.email /\ c1.phone # c2.phone)

\* two contacts are stored and a create or update has just been refused
\* for the email or phone of one of them
C11_Witness ==
    /\ Cardinality(contacts) >= 2
    /\ req.op \in {"create_contact", "update_contact"}
    /\ ret = IntegrityError

\* C18: every contact of the caller whose birthday (day, month) is the
\* (day, month) of one of the dates D..D+6 is in the result of
\* get_contacts_birthday, its key being one of the 7 keys of the dates.
C18_BirthdayComplete ==
    req.op = "read_birthdays" =>
        \A c \in contacts :
            (/\ c.user_id = req.user
             /\ <<c.birthday.day, c.birthday.month>> \in BirthdayWindow(req.today)) =>
                /\ BirthdayKey(c.birthday) \in BirthdayDays(req.today)
                /\ c \in ret.rows

\* a contact whose birthday is the last day of the window, D+6, is returned
C18_Witness ==
    /\ req.op = "read_birthdays"
    /\ \E c \in ret.rows :
          /\ c.birthday.day = AddDays(req.today, 6).day
          /\ c.birthday.month = AddDays(req.today, 6).month

\* C19: no request changes the id or the owner of a stored contact, an
\* update changes no contact but the one with the given id and adds or
\* removes none, and a contact that appears belongs to the user whose
\* request created it: every stored contact stays with its creator.
C19_IdAndOwnerKept ==
    [][/\ \A c \in contacts : \A n \in contacts' :
              n.id = c.id => n.user_id = c.user_id
       /\ \A n \in contacts' :
              (\A c \in contacts : c.id # n.id) =>
                  (req'.op = "create_contact" /\ n.user_id = req'.user)
       /\ req'.op = "update_contact" =>
              /\ {n.id : n \in contacts'} = {c.id : c \in contacts}
              /\ \A c \in contacts : c.id # req'.id => c \in contacts']_vars

\* an update has rewritten a contact while another user's contact is stored
C19_Witness ==
    /\ req.op = "update_contact"
    /\ ret.kind = "Contact"
    /\ \E c \in contacts : c.user_id # req.user

\* C20: a create_contact or update_contact that fails with a uniqueness
\* violation leaves the stored contacts exactly as they were.
C20_FailedWriteChangesNothing ==
    [][(/\ req'.op \in {"create_contact", "update_contact"}
        /\ ret'.kind # "NotCalled"
        /\ \/ req'.op = "create_contact"
              /\ HeldByAnother(0, req'.body, contacts)
           \/ req'.op = "update_contact"
              /\ ~NotOwned(req'.id, req'.user, contacts)
              /\ HeldByAnother(req'.id, req'.body, contacts)) =>
            (ret' = IntegrityError /\ contacts' = contacts)]_vars

\* an update to the email or phone of another stored contact was refused
C20_Witness ==
    /\ req.op = "update_contact"
    /\ ret = IntegrityError

-----------------------------------------------------------------------------
(* The users and their tokens *)

\* a signup whose email is not taken, so that create_user is called
SignupCreates == req.op = "none" /\ req'.op = "signup" /\ ret' # NotCalled

\* C16: when the avatar lookup raises, create_user raises nothing: it
\* inserts and returns the user with avatar null, and the row is the one a
\* successful lookup would have given except for the avatar
C16_GravatarFailureTolerated ==
    [][(SignupCreates /\ req'.gravatar = "raises") =>
        LET body == [req'.body EXCEPT !.password = Hash(req'.body.password)]
            good == create_user(body, "ok", users)
        IN  /\ ret'.kind = "Contact"
            /\ ret'.kind = good.ret.kind
            /\ users' = users \cup ret'.rows
            /\ \A u \in ret'.rows :
                /\ u \notin users
                /\ u.avatar = NoAvatar
                /\ u.email = req'.body.email
                /\ u.username = req'.body.username
                /\ \E v \in good.ret.rows :
                    v.avatar # NoAvatar /\ [v EXCEPT !.avatar = NoAvatar] = u]_vars

C16_Witness ==
    /\ req.op = "signup"
    /\ req.gravatar = "raises"
    /\ ret.kind = "Contact"
    /\ \E u \in ret.rows : u \in users /\ u.avatar = NoAvatar

\* a login with the password of a user that exists
LoginCorrect ==
    /\ req.op = "none"
    /\ req'.op = "login"
    /\ \E u \in users : u.email = req'.email /\ u.password = Hash(req'.password)

\* the response carries an access and a refresh token of the subject
IssuesTokens(r, sub) ==
    /\ r.status = HTTP_200_OK
    /\ \E t \in r.body :
        /\ t.access_token = create_access_token(sub, t.access_token.n)
        /\ t.refresh_token = create_refresh_token(sub, t.refresh_token.n)

\* C12: the login with the correct password is refused with 401 and no
\* token while the user is not confirmed, and succeeds with an access and a
\* refresh token once confirmed_email has confirmed the user
C12_LoginNeedsConfirmedEmail ==
    [][LoginCorrect =>
        IF req'.email \in confirmedEmails
        THEN /\ \A u \in users : u.email = req'.email => u.confirmed
             /\ IssuesTokens(resp', req'.email)
             /\ Len(issued') = Len(issued) + 1
        ELSE /\ \A u \in users : u.email = req'.email => ~u.confirmed
             /\ resp'.status = 401
             /\ resp'.body = {}
             /\ issued' = issued
             /\ users' = users]_vars

C12_Witness ==
    /\ req.op = "login"
    /\ req.email \in confirmedEmails
    /\ IssuesTokens(resp, req.email)
    /\ \E u \in users : u.email = req.email /\ u.confirmed

\* a login or a refresh that succeeded
TokensIssued ==
    /\ req.op = "none"
    /\ req'.op \in {"login", "refresh_token"}
    /\ resp'.status = HTTP_200_OK

\* a refresh whose token is not the one stored for its subject
RefreshNotCurrent ==
    /\ req.op = "none"
    /\ req'.op = "refresh_token"
    /\ ~\E u \in users : /\ u.email = req'.presented.token.sub
                         /\ u.refresh_token = req'.presented.token

\* C13: a successful login or refresh stores the refresh token it returns,
\* a new one, as the only refresh token of the user; a refresh that presents
\* another token than the stored one is refused with 401 and issues nothing
C13_RefreshTokenRotation ==
    [][/\ TokensIssued =>
            \E u \in users' : \A t \in resp'.body :
                /\ u.email = req'.email
                /\ u.refresh_token = t.refresh_token
                /\ t.refresh_token = create_refresh_token(u.email, Len(issued'))
                /\ Len(issued') = Len(issued) + 1
                /\ \A v \in users : v.refresh_token # t.refresh_token
       /\ RefreshNotCurrent =>
            /\ resp'.status = 401
            /\ resp'.body = {}
            /\ issued' = issued
            /\ \A u \in users' :
                u.refresh_token \in {NoToken} \cup {v.refresh_token : v \in users}]_vars

\* a refresh token superseded by a later login or refresh is refused
C13_Witness ==
    /\ req.op = "refresh_token"
    /\ Decodes(req.presented, "refresh_token")
    /\ resp.status = 401
    /\ \E u \in users :
        /\ u.email = req.presented.token.sub
        /\ u.refresh_token.scope = "refresh_token"
        /\ u.refresh_token.n > req.presented.token.n

-----------------------------------------------------------------------------
(* The limiter and the authentication ahead of the contact handlers *)

GateOps == {"read_contacts", "create_contact"}

\* a request to a contact route is answered
GateStep == req.op = "none" /\ req'.op \in GateOps

\* the limiter's key of the request answered
RequestKey(op) ==
    RouteKey("/api/contacts/", IF op = "read_contacts" THEN "GET" ELSE "POST",
             limiter.byMethod)

\* the route's quota of the window is used up
QuotaUsedUp(op) == limiter.keys[RequestKey(op)].count >= RateLimitTimes

\* no token, no JWT, an expired one, one of another scope, or one whose
\* subject is not in table users
LacksValidToken(token, db) ==
    \/ token.kind # "jwt"
    \/ token.expired
    \/ token.token.scope \in {"refresh_token", "email_token"}
    \/ ~\E u \in db : u.email = token.token.sub

\* the repository is not called and the table is as it was
StoreUntouched ==
    /\ ret' = NotCalled
    /\ contacts' = contacts
    /\ nextId' = nextId
    /\ removed' = removed

\* C14 as stated: a request without a valid access token is answered 401
\* and the contact store is neither read nor changed
C14_InvalidTokenIsUnauthorized ==
    [][(GateStep /\ LacksValidToken(bearer', users)) =>
        (resp'.status = 401 /\ StoreUntouched)]_vars

\* C14: a request without a valid access token never reaches the
\* repository and changes no contact; it is answered 401, or 429 when the
\* route's quota of the window is used up, the limiter being asked first;
\* a request with a valid access token is never answered 401
C14_InvalidTokenNeverReachesStore ==
    [][GateStep =>
        IF LacksValidToken(bearer', users)
        THEN /\ StoreUntouched
             /\ resp'.body = {}
             /\ resp'.status = IF QuotaUsedUp(req'.op) THEN 429 ELSE 401
        ELSE resp'.status # 401]_vars

\* a create_contact with a refresh token is answered 401, the table empty
C14_Witness ==
    /\ req.op = "create_contact"
    /\ bearer = Presented(create_refresh_token("u1@x", 1), FALSE)
    /\ resp.status = 401
    /\ ret = NotCalled
    /\ contacts = {}

\* the key of GET /api/contacts/
ReadContactsKey == RouteKey("/api/contacts/", "GET", limiter.byMethod)

\* a refused request does nothing: no repository call, no change of a
\* contact
RefusedDoesNothing == resp'.status = 429 => StoreUntouched

-----------------------------------------------------------------------------
(* Two create_contact calls at the same time *)

\* the workers' calls carry the same email or the same phone
SameEmailOrPhone(v, w) ==
    /\ txn[v].pc # "idle"
    /\ txn[w].pc # "idle"
    /\ \/ txn[v].body.email = txn[w].body.email
       \/ txn[v].body.phone = txn[w].body.phone

\* the worker's row is written, committed or not
Wrote(w) == txn[w].pc = "inserted" \/ (txn[w].pc = "done" /\ txn[w].ret.kind = "Contact")

\* C17: of two create_contact calls in progress with the same email or the
\* same phone, whoever the users, at most one writes and commits its row
\* and the other one, once its INSERT is through, has failed with the
\* uniqueness violation; table contacts never holds two rows of one email
\* or phone, and it holds the row of every call that returned a contact
C17_ConcurrentDuplicatesOneCommits ==
    /\ IntegrityOk(contacts)
    /\ \A w \in Workers :
        (txn[w].pc = "done" /\ txn[w].ret.kind = "Contact") => RowOf(txn[w]) \in contacts
    /\ \A v, w \in Workers :
        (v # w /\ SameEmailOrPhone(v, w)) =>
            /\ ~(Wrote(v) /\ Wrote(w))
            /\ (Wrote(v) /\ txn[w].pc = "done") => txn[w].ret = IntegrityError

\* both calls were in progress together: the one that took its id first
\* failed, the other one committed
C17_Witness ==
    \E v, w \in Workers :
        /\ SameEmailOrPhone(v, w)
        /\ txn[v].user # txn[w].user
        /\ txn[v].pc = "done" /\ txn[v].ret = IntegrityError
        /\ txn[w].pc = "done" /\ txn[w].ret.kind = "Contact"
        /\ txn[v].id < txn[w].id
        /\ RowOf(txn[w]) \in contacts

====
